---------------------------- MODULE Spec2Model ----------------------------
(***************************************************************************)
(* Model of get_errors.py: the worker pool that computes per-batch costs   *)
(* (error_process), the coordinator that feeds it and averages the costs   *)
(* (get_error), and the two commands that call it (eval_one_model,         *)
(* eval_multiple_models).                                                  *)
(***************************************************************************)
EXTENDS Integers, Sequences, FiniteSets, Bags, TLC

\* ------------------------------------------------------------------ bounds
\* Largest number of batches the corpus iterator yields.
MaxBatches == 3
\* Largest number of comma separated entries of --devices.
MaxDevices == 2
\* Largest number of entries os.listdir returns for the model directory.
MaxFiles == 3
\* Largest listing, corpus and pool of the sweeps of the directory "runs".
TableFiles == 4
TableBatches == 1
TableDevices == 1
\* Width in bits of the significand of the floating-point costs (IEEE
\* single and double have 24 and 53).
Prec == 3

\* ------------------------------------------------------- small arithmetic
RECURSIVE Pow2(_)
Pow2(e) == IF e = 0 THEN 1 ELSE 2 * Pow2(e - 1)

\* ------------------------------------------------------- floating point
\* Costs are floating-point numbers.  A value is a natural number of units
\* of the smallest representable step; it is representable when it needs
\* at most Prec significant bits.

\* Exponent of the unit in the last place of the quotient num/den.
RECURSIVE UlpExp(_, _, _)
UlpExp(num, den, e) ==
    IF num < den * Pow2(Prec + e) THEN e ELSE UlpExp(num, den, e + 1)

\* The multiple of ulp nearest to num/den, a tie going to the even one.
Nearest(num, den, ulp) ==
    LET lo == num \div (den * ulp)
        r2 == 2 * (num - lo * den * ulp)
    IN  IF r2 < den * ulp THEN lo * ulp
        ELSE IF r2 > den * ulp THEN (lo + 1) * ulp
        ELSE IF lo % 2 = 0 THEN lo * ulp ELSE (lo + 1) * ulp

\* num/den rounded to the nearest representable value, ties to the even
\* significand (the IEEE default rounding).  The operands are bound first,
\* so that each is evaluated once.
RoundQ(num, den) ==
    CHOOSE r \in { Nearest(n, d, u) :
                     n \in {num}, d \in {den},
                     u \in { Pow2(UlpExp(n2, d2, 0)) : n2 \in {num}, d2 \in {den} } } :
        TRUE

\* Floating-point sum of a list, left to right, rounded after every
\* addition (numpy's add.reduce on a short array).
RECURSIVE FSumFrom(_, _)
FSumFrom(acc, s) ==
    IF s = <<>> THEN acc ELSE FSumFrom(RoundQ(acc + Head(s), 1), Tail(s))

\* The value np.mean gives for an empty list.
NaN == -1

\* np.sum in the place of np.mean.
SumNotMean(costs) ==
    IF costs = <<>> THEN NaN ELSE FSumFrom(0, costs)

\* np.mean(costs): the floating-point sum divided by the length; NaN (and
\* a RuntimeWarning, no exception) for an empty list.
mean(costs) ==
    IF costs = <<>> THEN NaN ELSE RoundQ(FSumFrom(0, costs), Len(costs))


\* ------------------------------------------------------- files and paths
\* File names and paths are sequences of tokens.  The directory entries
\* the runs draw from: checkpoints, options files, their modification
\* times (os.path.getmtime), the parameters a checkpoint holds and whether
\* load_params can read it.
Disk ==
    [ A  |-> [name |-> <<"m_", "epoch_", "3", "_update_", "100", ".npz">>,
              mtime |-> 2, params |-> 1, readable |-> TRUE],
      B  |-> [name |-> <<"m_", "epoch_", "1", "_update_", "50", ".npz">>,
              mtime |-> 1, params |-> 1, readable |-> TRUE],
      C  |-> [name |-> <<"last", "_update_", "9", ".npz">>,
              mtime |-> 3, params |-> 2, readable |-> TRUE],
      F  |-> [name |-> <<"m_", "epoch_", "2", "_update_", "70", ".npz">>,
              mtime |-> 2, params |-> 1, readable |-> FALSE],
      G  |-> [name |-> <<"m_", "epoch_", "2", "_update_", "50", ".npz">>,
              mtime |-> 2, params |-> 1, readable |-> TRUE],
      J1 |-> [name |-> <<"options", ".json">>,
              mtime |-> 1, params |-> 0, readable |-> TRUE],
      J2 |-> [name |-> <<"other", ".json">>,
              mtime |-> 1, params |-> 0, readable |-> TRUE] ]

Files == DOMAIN Disk

\* The model directories the sweep is run on with the whole pool of
\* workers: "models" and "epoch_7".
Dirs == { <<"models">>, <<"epoch_", "7">> }

\* The model directories "runs" and "epoch_5_update_6.npz.d", swept by a
\* small pool on a short corpus.  They hold one more checkpoint, G, last
\* written at the same time as A.
TableDirs == { <<"runs">>, <<"epoch_", "5", "_update_", "6", ".npz", ".d">> }

\* The entries of a directory.
Entries(dir) == IF dir \in TableDirs THEN Files ELSE Files \ {"G"}

\* The decimal numerals among the tokens, with their values.
Numerals ==
    [ t \in {"1", "2", "3", "5", "6", "7", "9", "50", "70", "100"} |->
        CASE t = "1" -> 1 [] t = "2" -> 2 [] t = "3" -> 3 [] t = "5" -> 5
          [] t = "6" -> 6 [] t = "7" -> 7 [] t = "9" -> 9 [] t = "50" -> 50
          [] t = "70" -> 70 [] t = "100" -> 100 ]

\* os.path.join(model_dir, f)
join(dir, f) == dir \o <<"/">> \o Disk[f].name

\* os.path.splitext(path)[1]
splitext(path) ==
    IF path # <<>> /\ path[Len(path)] \in {".npz", ".json"}
    THEN path[Len(path)] ELSE ""

Min(S) == CHOOSE x \in S : \A y \in S : x <= y

\* The places of path where the default --name-format,
\* epoch_(.+?)_update_(.+?)\.npz, can end its first and its second group.
UpdateAfter(path, i) ==
    { j \in (i + 2)..Len(path) :
        /\ path[j] = "_update_"
        /\ \E k \in (j + 2)..Len(path) : path[k] = ".npz" }

NpzAfter(path, j) == { k \in (j + 2)..Len(path) : path[k] = ".npz" }

NoMatch == [matched |-> FALSE, group1 |-> <<>>, group2 |-> <<>>]

\* re.search(nf, m): the leftmost match anywhere in m, each group as short
\* as possible.
re_search(m) ==
    LET starts == { i \in 1..Len(m) :
                      m[i] = "epoch_" /\ UpdateAfter(m, i) # {} }
    IN  IF starts = {} THEN NoMatch
        ELSE LET i == Min(starts)
                 j == Min(UpdateAfter(m, i))
                 k == Min(NpzAfter(m, j))
             IN  [matched |-> TRUE,
                  group1 |-> SubSeq(m, i + 1, j - 1),
                  group2 |-> SubSeq(m, j + 1, k - 1)]

\* Whether int(group) succeeds: it raises ValueError unless the group is
\* one decimal numeral.
int_ok(group) == Len(group) = 1 /\ group[1] \in DOMAIN Numerals

\* int(group)
int(group) == Numerals[group[1]]

\* An insertion that puts a record ahead of the records of its own time.
RECURSIVE InsertBeforeTies(_, _)
InsertBeforeTies(sorted, x) ==
    IF sorted = <<>> THEN <<x>>
    ELSE IF Head(sorted)[1] < x[1]
         THEN <<Head(sorted)>> \o InsertBeforeTies(Tail(sorted), x)
         ELSE <<x>> \o sorted

\* sorted(m_infos, key=lambda x: x[0]): ascending by time, stable.
RECURSIVE InsertByTime(_, _)
InsertByTime(sorted, x) ==
    IF sorted = <<>> THEN <<x>>
    ELSE IF Head(sorted)[1] <= x[1]
         THEN <<Head(sorted)>> \o InsertByTime(Tail(sorted), x)
         ELSE <<x>> \o sorted

RECURSIVE sorted_by_time(_)
sorted_by_time(m_infos) ==
    IF m_infos = <<>> THEN <<>>
    ELSE InsertByTime(sorted_by_time(SubSeq(m_infos, 1, Len(m_infos) - 1)),
                      m_infos[Len(m_infos)])

\* ------------------------------------------------------------ the corpus
\* The batches TextIterator yields, in corpus order: batch k of the corpus
\* text.  A batch is known by its place in the corpus and carries its data.
Text(k) == IF k = 1 THEN 32 ELSE 4

Batch(k) == [kind |-> "batch", idx |-> k, data |-> Text(k)]

Corpora == { [k \in 1..n |-> Batch(k)] : n \in 0..MaxBatches }

\* The stop sentinel "STOP".
STOP == [kind |-> "STOP", idx |-> 0, data |-> 0]

\* The value of cur_data while a worker holds no item.
NoData == [kind |-> "none", idx |-> 0, data |-> 0]

\* The compiled cost function f_cost: a deterministic function of the
\* parameters of the checkpoint and of the batch.
f_cost(params, batch) == params * batch.data

\* ---------------------------------------------------------------- state
VARIABLES
    command,        \* the command run: "eval_one_model" or "eval_multiple_models"
    model_dir,      \* eval_multiple_models: MODEL_DIR
    listing,        \* eval_multiple_models: what os.listdir(model_dir) returns
    out_file,       \* eval_multiple_models: whether --out-file is given
    corpus,         \* the batches the corpus iterator yields
    devices,        \* the number of entries of --devices
    pc,             \* where the main process is
    exc,            \* the exception that ended the main process ("" if none)
    model_files,    \* get_error: <<options file, checkpoint file>>
    calls,          \* the number of get_error calls that created their queues
    in_queue,       \* in_queue[c]: the Task Queue created by call c
    out_queue,      \* out_queue[c]: the Result Queue created by call c
    processes,      \* every worker process started so far
    num_batches,    \* get_error
    stops,          \* get_error: sentinels put so far
    costs,          \* get_error
    progress,       \* get_error: the percentages printed, in hundredths
    returns,        \* the value each finished get_error call returned
    i,              \* eval_multiple_models: checkpoints handled so far
    model_npzs,     \* eval_multiple_models
    model_option_file,
    m_info,         \* eval_multiple_models: time, epoch, update of the call
    m_infos,        \* eval_multiple_models
    stdout,         \* eval_multiple_models: lines printed, but for progress
    csv,            \* the content of the out file
    taken,          \* history: taken[c][k], how often batch k was dequeued
    pushed          \* history: pushed[c][k], the costs pushed for batch k

inputs == <<command, model_dir, listing, out_file, corpus, devices>>
sweep == <<i, model_npzs, model_option_file, m_info, m_infos, stdout, csv>>
queues == <<in_queue, out_queue, taken, pushed>>
coord == <<model_files, calls, num_batches, stops, costs, progress, returns>>
vars == <<inputs, pc, exc, coord, queues, processes, sweep>>

\* The content of the out file before the run.
OldCsv == <<"old content">>

\* The checkpoints eval_one_model is run on.
Checkpoints ==
    { f \in Entries(<<"models">>) : splitext(Disk[f].name) = ".npz" }

\* What os.listdir can return: the entries of the directory, in any order.
Listings(dir) ==
    UNION { { l \in [1..n -> Entries(dir)] :
                \A a, b \in 1..n : a # b => l[a] # l[b] } :
            n \in 0..(IF dir \in TableDirs THEN TableFiles ELSE MaxFiles) }

InitCommon ==
    /\ corpus \in Corpora
    /\ devices \in 1..MaxDevices
    /\ pc = "main"
    /\ exc = ""
    /\ calls = 0
    /\ in_queue = <<>>
    /\ out_queue = <<>>
    /\ processes = <<>>
    /\ num_batches = 0
    /\ stops = 0
    /\ costs = <<>>
    /\ progress = <<>>
    /\ returns = <<>>
    /\ i = 0
    /\ model_npzs = <<>>
    /\ model_option_file = <<>>
    /\ m_info = <<>>
    /\ m_infos = <<>>
    /\ stdout = <<>>
    /\ csv = OldCsv
    /\ taken = <<>>
    /\ pushed = <<>>

\* eval_one_model MODEL_FILES DICTS SOURCE_FILE TARGET_FILE --devices
Init ==
    /\ command = "eval_one_model"
    /\ model_dir = <<"models">>
    /\ listing = <<>>
    /\ out_file = FALSE
    /\ model_files \in { <<join(model_dir, "J1"), join(model_dir, f)>> :
                           f \in Checkpoints }
    /\ InitCommon

\* eval_multiple_models MODEL_DIR DICTS SOURCE_FILE TARGET_FILE --devices
\* --out-file
SweepInit ==
    /\ command = "eval_multiple_models"
    /\ model_dir \in Dirs
    /\ listing \in Listings(model_dir)
    /\ out_file \in BOOLEAN
    /\ model_files = <<>>
    /\ InitCommon

\* eval_multiple_models on the directory "runs", with a pool of at most
\* TableDevices workers and a corpus of at most TableBatches batches.
TableInit ==
    /\ command = "eval_multiple_models"
    /\ model_dir \in TableDirs
    /\ listing \in Listings(model_dir)
    /\ out_file \in BOOLEAN
    /\ model_files = <<>>
    /\ InitCommon
    /\ Len(corpus) <= TableBatches
    /\ devices <= TableDevices

\* The file a path names.
FileAt(path) ==
    CHOOSE f \in Files : \E d \in Dirs \cup TableDirs : join(d, f) = path

\* ------------------------------------------------------------- get_error
\* The workers of call c, as indices into processes.
WorkersOf(c) == { w \in 1..Len(processes) : processes[w].call = c }

\* Workers that keep what an earlier call left in the parameters.
NewProcessesStaleParams(c, params) ==
    [d \in 1..devices |->
        [call |-> c, device |-> d, at |-> "compile", cur_data |-> NoData,
         params |-> params + c - 1, sentinels |-> 0, died |-> "",
         during |-> FALSE]]

\* processes = [Process(...) for device in devices.split(",")], each
\* started as a daemon: the workers get_error starts for call c.
NewProcesses(c, params) ==
    [d \in 1..devices |->
        [call |-> c, device |-> d, at |-> "compile", cur_data |-> NoData,
         params |-> params, sentinels |-> 0, died |-> "", during |-> FALSE]]

\* One sentinel too few.
StopsLessOne(c) == Cardinality(WorkersOf(c)) - 1

\* for _ in processes: the number of sentinels get_error puts.
StopsToPut(c) == Cardinality(WorkersOf(c))

\* One pop too few, and one too many.
PopsLessOne(n) == IF n > 1 THEN n - 1 ELSE n

PopsOneMore(n) == n + 1

\* range(num_batches): the number of costs get_error pops.
PopsToDo(n) == n

\* Lines 53-83: load the options, the dictionaries and the parameters,
\* create the two queues, start one daemon process per device and open
\* the corpus.  load_params raises on an unreadable checkpoint.
GetErrorStart ==
    /\ pc = "get_error"
    /\ LET ckpt == Disk[FileAt(model_files[2])]
           c == calls + 1
       IN  IF ~ckpt.readable
           THEN /\ exc' = "load_params"
                /\ pc' = "raise"
                /\ UNCHANGED <<calls, queues, processes>>
           ELSE /\ calls' = c
                /\ in_queue' = Append(in_queue, <<>>)
                /\ out_queue' = Append(out_queue, <<>>)
                /\ taken' = Append(taken, [k \in 1..Len(corpus) |-> 0])
                /\ pushed' = Append(pushed, [k \in 1..Len(corpus) |-> 0])
                /\ processes' = processes \o NewProcesses(c, ckpt.params)
                /\ pc' = "put_batches"
                /\ exc' = exc
    /\ num_batches' = 0
    /\ stops' = 0
    /\ costs' = <<>>
    /\ progress' = <<>>
    /\ UNCHANGED <<inputs, model_files, returns, sweep>>

\* A loop over the corpus that puts a sentinel after every batch.
PutBatchAndStop ==
    /\ pc = "put_batches"
    /\ IF num_batches < Len(corpus)
       THEN /\ in_queue' = [in_queue EXCEPT ![calls] =
                                Append(Append(@, corpus[num_batches + 1]), STOP)]
            /\ num_batches' = num_batches + 1
            /\ pc' = pc
       ELSE /\ pc' = "put_stops"
            /\ UNCHANGED <<in_queue, num_batches>>
    /\ UNCHANGED <<inputs, exc, model_files, calls, stops, costs, progress,
                   returns, out_queue, taken, pushed, processes, sweep>>

\* Lines 85-88: for batch in ti: in_queue.put(batch); num_batches += 1.
\* The corpus exhausted, the loop ends.
PutBatch ==
    /\ pc = "put_batches"
    /\ IF num_batches < Len(corpus)
       THEN /\ in_queue' = [in_queue EXCEPT ![calls] =
                                Append(@, corpus[num_batches + 1])]
            /\ num_batches' = num_batches + 1
            /\ pc' = pc
       ELSE /\ pc' = "put_stops"
            /\ UNCHANGED <<in_queue, num_batches>>
    /\ UNCHANGED <<inputs, exc, model_files, calls, stops, costs, progress,
                   returns, out_queue, taken, pushed, processes, sweep>>

\* Lines 90-91: for _ in processes: in_queue.put("STOP").
PutStop ==
    /\ pc = "put_stops"
    /\ IF stops < StopsToPut(calls)
       THEN /\ in_queue' = [in_queue EXCEPT ![calls] = Append(@, STOP)]
            /\ stops' = stops + 1
            /\ pc' = pc
       ELSE /\ pc' = "get_costs"
            /\ UNCHANGED <<in_queue, stops>>
    /\ UNCHANGED <<inputs, exc, model_files, calls, num_batches, costs,
                   progress, returns, out_queue, taken, pushed, processes,
                   sweep>>

\* Line 96, as line 97 prints it with {:.2f}: (num_processed / num_batches)
\* * 100, in hundredths of a percent.
percentage_done(num_processed, n) ==
    (num_processed * 20000 + n) \div (2 * n)

\* Lines 93-98: for num_processed in range(num_batches): pop one cost
\* (blocking) and print the progress.  The loop done, line 99.
GetCost ==
    /\ pc = "get_costs"
    /\ IF Len(costs) < PopsToDo(num_batches)
       THEN /\ out_queue[calls] # <<>>
            /\ costs' = Append(costs, Head(out_queue[calls]))
            /\ out_queue' = [out_queue EXCEPT ![calls] = Tail(@)]
            /\ progress' = Append(progress,
                                  percentage_done(Len(costs), num_batches))
            /\ pc' = pc
       ELSE /\ pc' = "mean"
            /\ UNCHANGED <<costs, out_queue, progress>>
    /\ UNCHANGED <<inputs, exc, model_files, calls, num_batches, stops,
                   returns, in_queue, taken, pushed, processes, sweep>>

\* A return that first joins the workers of the call.
ReturnAfterJoin ==
    /\ pc = "mean"
    /\ \A w \in WorkersOf(calls) : processes[w].at \in {"exited", "crashed"}
    /\ returns' = Append(returns, mean(costs))
    /\ pc' = IF command = "eval_one_model" THEN "exit" ELSE "append"
    /\ UNCHANGED <<inputs, exc, model_files, calls, num_batches, stops,
                   costs, progress, queues, processes, sweep>>

\* Lines 101-104: mean_cost = np.mean(costs); print and return it, to
\* the command that called get_error.
Return ==
    /\ pc = "mean"
    /\ returns' = Append(returns, mean(costs))
    /\ pc' = IF command = "eval_one_model" THEN "exit" ELSE "append"
    /\ UNCHANGED <<inputs, exc, model_files, calls, num_batches, stops,
                   costs, progress, queues, processes, sweep>>

\* -------------------------------------------------------- error_process
\* Lines 28-42: bind the device, build and compile the cost function.
Compile(w) ==
    /\ processes[w].at = "compile"
    /\ processes' = [processes EXCEPT ![w].at = "get"]
    /\ UNCHANGED <<inputs, pc, exc, coord, queues, sweep>>

\* The queues a worker would use if it shared the module-level names
\* in_queue and out_queue with the main process, as a thread does: those
\* of the latest call.
QueueOfMain(w) == calls

\* The queues the names in_queue and out_queue (lines 45 and 48) stand for
\* in worker w.  The worker is a process forked from the main process by
\* p.start() (line 76): it has its own copy of the module-level names,
\* bound as they were at that moment to the queues of the call that
\* started it, and does not see them rebound by a later call.
QueueOf(w) == processes[w].call

\* A get that leaves the item in the queue.
PeekOnly(q) == [item |-> Head(q), rest |-> q]

\* in_queue.get(): the item a worker takes from a queue, and what is left.
get(q) == [item |-> Head(q), rest |-> Tail(q)]

\* Lines 45-47: cur_data = in_queue.get() (blocking); "STOP" ends the loop
\* and the process.  The queue is the one the process was started with.
Get(w) ==
    LET p == processes[w]
        q == QueueOf(w)
        got == get(in_queue[q])
    IN  /\ p.at = "get"
        /\ in_queue[q] # <<>>
        /\ in_queue' = [in_queue EXCEPT ![q] = got.rest]
        /\ IF got.item = STOP
           THEN /\ processes' = [processes EXCEPT
                                   ![w].at = "exited",
                                   ![w].cur_data = got.item,
                                   ![w].sentinels = @ + 1]
                /\ taken' = taken
           ELSE /\ processes' = [processes EXCEPT
                                   ![w].at = "f_cost",
                                   ![w].cur_data = got.item]
                /\ taken' = [taken EXCEPT ![q][got.item.idx] = @ + 1]
        /\ UNCHANGED <<inputs, pc, exc, coord, out_queue, pushed, sweep>>

\* Line 48: out_queue.put(f_cost(*cur_data)).  The batch is then no longer
\* used: cur_data is the batch a worker holds, NoData once its cost is put.
PutCost(w) ==
    LET p == processes[w]
        q == QueueOf(w)
    IN  /\ p.at = "f_cost"
        /\ out_queue' = [out_queue EXCEPT ![q] =
                            Append(@, f_cost(p.params, p.cur_data))]
        /\ pushed' = [pushed EXCEPT ![q][p.cur_data.idx] = @ + 1]
        /\ processes' = [processes EXCEPT ![w].at = "get",
                                          ![w].cur_data = NoData]
        /\ UNCHANGED <<inputs, pc, exc, coord, in_queue, taken, sweep>>

\* A failure after which the batch the worker held is back in the Task
\* Queue, to be tried again.
CrashRequeues(w) ==
    /\ processes[w].at \in {"compile", "f_cost"}
    /\ processes' = [processes EXCEPT
                       ![w].at = "crashed",
                       ![w].died = processes[w].at,
                       ![w].during = Len(returns) < processes[w].call]
    /\ in_queue' = IF processes[w].at = "f_cost"
                   THEN [in_queue EXCEPT ![QueueOf(w)] =
                            <<processes[w].cur_data>> \o @]
                   ELSE in_queue
    /\ UNCHANGED <<inputs, pc, exc, coord, out_queue, taken, pushed, sweep>>

\* A worker fails: a device or compilation error while it builds the cost
\* function (lines 28-42), or an error of the cost function on a batch
\* (line 48).  The exception ends the worker process; nothing is put on a
\* queue.  `during` notes whether the get_error call that started the
\* worker was still running.
Crash(w) ==
    /\ processes[w].at \in {"compile", "f_cost"}
    /\ processes' = [processes EXCEPT
                       ![w].at = "crashed",
                       ![w].died = processes[w].at,
                       ![w].during = Len(returns) < processes[w].call]
    /\ UNCHANGED <<inputs, pc, exc, coord, queues, sweep>>

\* ------------------------------------------------------------- commands
\* Lines 122-123: eval_one_model calls get_error on its arguments.
EvalOneModel ==
    /\ pc = "main"
    /\ command = "eval_one_model"
    /\ pc' = "get_error"
    /\ UNCHANGED <<inputs, exc, coord, queues, processes, sweep>>

\* Lines 149-152: list the directory, keep the regular files, the .npz
\* among them as checkpoints and the first .json as the options file;
\* [...][0] raises IndexError when there is no .json.
ListModels ==
    /\ pc = "main"
    /\ command = "eval_multiple_models"
    /\ LET files == [k \in 1..Len(listing) |-> join(model_dir, listing[k])]
           npzs == SelectSeq(files, LAMBDA f : splitext(f) = ".npz")
           jsons == SelectSeq(files, LAMBDA f : splitext(f) = ".json")
       IN  /\ model_npzs' = npzs
           /\ IF jsons = <<>>
              THEN /\ exc' = "IndexError"
                   /\ pc' = "raise"
                   /\ UNCHANGED model_option_file
              ELSE /\ model_option_file' = jsons[1]
                   /\ pc' = "loop"
                   /\ exc' = exc
    /\ UNCHANGED <<inputs, coord, queues, processes, i, m_info, m_infos,
                   stdout, csv>>

\* Lines 156-162 and 165-166: the next checkpoint.  Its path is searched
\* for the name format; on a match the groups are converted (int raises
\* ValueError), the modification time is read and get_error is called; on
\* no match a line is printed and the loop goes on.
NextModel ==
    /\ pc = "loop"
    /\ i < Len(model_npzs)
    /\ LET m == model_npzs[i + 1]
           re_match == re_search(m)
       IN  IF re_match.matched
           THEN IF int_ok(re_match.group1) /\ int_ok(re_match.group2)
                THEN /\ m_info' = <<Disk[FileAt(m)].mtime,
                                    int(re_match.group1),
                                    int(re_match.group2)>>
                     /\ model_files' = <<model_option_file, m>>
                     /\ pc' = "get_error"
                     /\ UNCHANGED <<exc, i, stdout>>
                ELSE /\ exc' = "ValueError"
                     /\ pc' = "raise"
                     /\ UNCHANGED <<m_info, model_files, i, stdout>>
           ELSE /\ stdout' = Append(stdout, <<"did not match", m>>)
                /\ i' = i + 1
                /\ UNCHANGED <<pc, exc, m_info, model_files>>
    /\ UNCHANGED <<inputs, calls, num_batches, stops, costs, progress,
                   returns, queues, processes, model_npzs,
                   model_option_file, m_infos, csv>>

\* Lines 162-164: get_error has returned; the record is appended and the
\* count of processed models printed.
AppendInfo ==
    /\ pc = "append"
    /\ m_infos' = Append(m_infos,
                         <<m_info[1], m_info[2], m_info[3],
                           returns[Len(returns)], model_files[2]>>)
    /\ stdout' = Append(stdout, <<"processed", i + 1, Len(model_npzs)>>)
    /\ i' = i + 1
    /\ pc' = "loop"
    /\ UNCHANGED <<inputs, exc, coord, queues, processes, model_npzs,
                   model_option_file, m_info, csv>>

\* A report that is also made, of the records collected so far, when an
\* exception has ended the loop.
ReportPartial ==
    /\ pc \in {"loop", "raise"}
    /\ command = "eval_multiple_models"
    /\ (pc = "loop") => i = Len(model_npzs)
    /\ LET rows == sorted_by_time(m_infos)
       IN  /\ m_infos' = rows
           /\ stdout' = stdout \o [k \in 1..Len(rows) |-> <<"row", rows[k]>>]
           /\ csv' = IF out_file
                     THEN <<"time,epoch,update,cost,model">> \o
                          [k \in 1..Len(rows) |-> <<"row", rows[k]>>]
                     ELSE csv
    /\ pc' = "exit"
    /\ UNCHANGED <<inputs, exc, coord, queues, processes, i, model_npzs,
                   model_option_file, m_info>>

\* A report that opens the out file to append to it.
ReportAppending ==
    /\ pc = "loop"
    /\ i = Len(model_npzs)
    /\ LET rows == sorted_by_time(m_infos)
       IN  /\ m_infos' = rows
           /\ stdout' = stdout \o [k \in 1..Len(rows) |-> <<"row", rows[k]>>]
           /\ csv' = IF out_file
                     THEN csv \o <<"time,epoch,update,cost,model">> \o
                          [k \in 1..Len(rows) |-> <<"row", rows[k]>>]
                     ELSE csv
    /\ pc' = "exit"
    /\ UNCHANGED <<inputs, exc, coord, queues, processes, i, model_npzs,
                   model_option_file, m_info>>

\* Lines 167-175: the loop done, the records are sorted by time, printed
\* one per line and, with --out-file, written under the header line.
Report ==
    /\ pc = "loop"
    /\ i = Len(model_npzs)
    /\ LET rows == sorted_by_time(m_infos)
       IN  /\ m_infos' = rows
           /\ stdout' = stdout \o [k \in 1..Len(rows) |-> <<"row", rows[k]>>]
           /\ csv' = IF out_file
                     THEN <<"time,epoch,update,cost,model">> \o
                          [k \in 1..Len(rows) |-> <<"row", rows[k]>>]
                     ELSE csv
    /\ pc' = "exit"
    /\ UNCHANGED <<inputs, exc, coord, queues, processes, i, model_npzs,
                   model_option_file, m_info>>

\* The main process ends, its command done or an exception raised.  The
\* workers are daemons (line 75): those still running are terminated.
Exit ==
    /\ pc \in {"exit", "raise"}
    /\ pc' = "exited"
    /\ processes' = [w \in 1..Len(processes) |->
                       IF processes[w].at \in {"compile", "get", "f_cost"}
                       THEN [processes[w] EXCEPT !.at = "terminated"]
                       ELSE processes[w]]
    /\ UNCHANGED <<inputs, exc, coord, queues, sweep>>

\* -------------------------------------------------------- specifications
\* eval_one_model
Next ==
    \/ EvalOneModel
    \/ GetErrorStart \/ PutBatch \/ PutStop \/ GetCost \/ Return
    \/ \E w \in DOMAIN processes : Compile(w)
    \/ \E w \in DOMAIN processes : Get(w)
    \/ \E w \in DOMAIN processes : PutCost(w)
    \/ \E w \in DOMAIN processes : Crash(w)
    \/ Exit

Spec == Init /\ [][Next]_vars

\* eval_multiple_models
SweepNext ==
    \/ ListModels \/ NextModel \/ AppendInfo \/ Report
    \/ GetErrorStart \/ PutBatch \/ PutStop \/ GetCost \/ Return
    \/ \E w \in DOMAIN processes : Compile(w)
    \/ \E w \in DOMAIN processes : Get(w)
    \/ \E w \in DOMAIN processes : PutCost(w)
    \/ \E w \in DOMAIN processes : Crash(w)
    \/ Exit

SweepSpec == SweepInit /\ [][SweepNext]_vars

\* eval_multiple_models on the directory "runs"
TableSpec == TableInit /\ [][SweepNext]_vars

\* eval_one_model in runs where no worker fails, under fair scheduling:
\* the main process and every worker process are separate processes of
\* the operating system, and each takes its next step if it stays able to.
MainStep ==
    \/ EvalOneModel
    \/ GetErrorStart \/ PutBatch \/ PutStop \/ GetCost \/ Return
    \/ Exit

WorkerStep(w) ==
    /\ w \in DOMAIN processes
    /\ Compile(w) \/ Get(w) \/ PutCost(w)

FairNext ==
    \/ EvalOneModel
    \/ GetErrorStart \/ PutBatch \/ PutStop \/ GetCost \/ Return
    \/ \E w \in DOMAIN processes : Compile(w)
    \/ \E w \in DOMAIN processes : Get(w)
    \/ \E w \in DOMAIN processes : PutCost(w)
    \/ Exit

FairSpec ==
    /\ Init
    /\ [][FairNext]_vars
    /\ WF_vars(MainStep)
    /\ \A w \in 1..(MaxDevices + 1) : WF_vars(WorkerStep(w))

\* eval_one_model in runs where workers can fail, under the same fair
\* scheduling: a worker that can take a step takes it or fails.
CrashFairSpec ==
    /\ Init
    /\ [][Next]_vars
    /\ WF_vars(MainStep)
    /\ \A w \in 1..(MaxDevices + 1) : WF_vars(WorkerStep(w))

\* ================================================================ claims
Abs(x) == IF x < 0 THEN -x ELSE x

\* The exact sum of a list of numbers.
RECURSIVE SeqSum(_)
SeqSum(s) == IF s = <<>> THEN 0 ELSE Head(s) + SeqSum(Tail(s))

\* The elements of a list, as a multiset.
RECURSIVE SeqBag(_)
SeqBag(s) ==
    IF s = <<>> THEN EmptyBag
    ELSE SetToBag({Head(s)}) (+) SeqBag(Tail(s))

\* Whether call c of get_error has returned.
HasReturned(c) == c <= Len(returns)

\* The items of a queue that are batches.
BatchesIn(q) == { n \in 1..Len(q) : q[n].kind = "batch" }

\* The workers of call c that hold batch k, computing its cost.
Holding(c, k) ==
    { w \in WorkersOf(c) : processes[w].at = "f_cost"
                           /\ processes[w].cur_data.idx = k }

\* The workers that failed.
Failed == { w \in DOMAIN processes : processes[w].at = "crashed" }

\* How often batch k stands in the Task Queue of call c.
Queued(c, k) ==
    Cardinality({ n \in BatchesIn(in_queue[c]) : in_queue[c][n].idx = k })

\* The number of costs pushed so far onto the Result Queue of call c.
RECURSIVE SumTo(_, _)
SumTo(f, n) == IF n = 0 THEN 0 ELSE f[n] + SumTo(f, n - 1)

\* C1: when get_error returns, it has popped as many costs as it pushed
\* batches, every batch of the corpus was pushed, dequeued by a worker and
\* its cost computed and pushed, and the Task Queue holds no batch (it may
\* hold stop sentinels).
C1_DrainedAllOnReturn ==
    HasReturned(1) =>
        /\ Len(costs) = Len(corpus)
        /\ num_batches = Len(corpus)
        /\ \A k \in 1..Len(corpus) : taken[1][k] >= 1 /\ pushed[1][k] >= 1
        /\ BatchesIn(in_queue[1]) = {}

\* get_error has returned the mean of two or more costs computed by a pool
\* of two or more workers, and a sentinel is still in the Task Queue.
C1_Witness ==
    /\ HasReturned(1)
    /\ Len(costs) >= 2
    /\ devices >= 2
    /\ in_queue[1] # <<>>

\* C2: under every interleaving, each batch pushed onto the Task Queue is
\* dequeued at most once, each dequeued batch has at most one cost pushed
\* and exactly one once its worker is done with it, the Result Queue never
\* receives more costs than batches were pushed, and, unless a worker
\* fails, every pushed batch is in exactly one place: in the Task Queue,
\* held by exactly one worker, or turned into its one cost.
C2_ExactlyOnce ==
    \A c \in 1..calls :
        /\ \A k \in 1..Len(corpus) :
              /\ taken[c][k] <= 1
              /\ pushed[c][k] <= taken[c][k]
              /\ (k > num_batches) => taken[c][k] = 0
              /\ (Failed = {} /\ k <= num_batches) =>
                    /\ Queued(c, k) + Cardinality(Holding(c, k)) + pushed[c][k] = 1
                    /\ taken[c][k] = Cardinality(Holding(c, k)) + pushed[c][k]
        /\ SumTo(pushed[c], Len(corpus)) <= Len(corpus)
        /\ (c = calls) =>
              /\ Len(out_queue[c]) + Len(costs) = SumTo(pushed[c], Len(corpus))
              /\ SumTo(pushed[c], Len(corpus)) <= num_batches

\* Two workers hold two different batches at the same time, while a third
\* batch waits in the Task Queue.
C2_Witness ==
    /\ calls = 1
    /\ \E w1, w2 \in WorkersOf(1) :
          /\ w1 # w2
          /\ processes[w1].at = "f_cost"
          /\ processes[w2].at = "f_cost"
          /\ processes[w1].cur_data.idx # processes[w2].cur_data.idx
    /\ BatchesIn(in_queue[1]) # {}

\* The sentinels in the Task Queue of call c.
StopsIn(c) == Cardinality({ n \in 1..Len(in_queue[c]) : in_queue[c][n] = STOP })

\* The sentinels the workers of call c have dequeued.
RECURSIVE SentinelsOf(_)
SentinelsOf(W) ==
    IF W = {} THEN 0
    ELSE LET w == CHOOSE x \in W : TRUE
         IN  processes[w].sentinels + SentinelsOf(W \ {w})

\* The worker processes that have ended.
Gone == { w \in DOMAIN processes :
            processes[w].at \in {"exited", "crashed", "terminated"} }

\* C3 as claimed: a worker that has ended has dequeued exactly one stop
\* sentinel, never zero and never two.
C3_EndedWithOneSentinel ==
    \A w \in Gone : processes[w].sentinels = 1

\* What holds of the sentinels in every state of a run where no worker
\* fails: get_error puts one per worker it started; every sentinel put is
\* in the Task Queue or was dequeued; no worker dequeues two; a worker
\* leaves its loop exactly when it has dequeued one; a worker that has
\* dequeued none ends only by being terminated when the main process ends.
C3_SentinelSafety ==
    \A c \in 1..calls :
        /\ (c = calls) =>
              /\ stops <= Cardinality(WorkersOf(c))
              /\ (pc \notin {"put_batches", "put_stops"}) =>
                    stops = Cardinality(WorkersOf(c))
              /\ StopsIn(c) + SentinelsOf(WorkersOf(c)) = stops
        /\ \A w \in WorkersOf(c) :
              /\ processes[w].sentinels <= 1
              /\ (processes[w].at = "exited") <=> (processes[w].sentinels = 1)
              /\ (processes[w].at = "terminated") => pc = "exited"

\* C3, amended: the sentinel safety above, and under fair scheduling all
\* workers eventually end, each by dequeuing its one sentinel or, when the
\* main process ends first, by being terminated as a daemon.
C3_OneSentinelEach ==
    /\ []C3_SentinelSafety
    /\ <>(pc = "exited" /\ Gone = DOMAIN processes)

\* Both workers of a pool of two have left their loops, each on its one
\* sentinel, after a corpus of two or more batches, the main process still
\* running.
C3_Witness ==
    /\ devices >= 2
    /\ Len(corpus) >= 2
    /\ pc # "exited"
    /\ Cardinality(WorkersOf(1)) = devices
    /\ \A w \in WorkersOf(1) :
          processes[w].at = "exited" /\ processes[w].sentinels = 1

\* C4: with no worker failing and fair scheduling, get_error never waits
\* to put a batch or a sentinel (the Task Queue is unbounded), no state
\* before the end of the main process is a deadlock, and once get_error
\* has started its workers it eventually returns.
C4_NeverStuck ==
    /\ (pc \in {"put_batches", "put_stops"}) => ENABLED (PutBatch \/ PutStop)
    /\ (pc # "exited") => ENABLED FairNext

C4_EventuallyReturns ==
    /\ []C4_NeverStuck
    /\ (calls = 1) ~> HasReturned(1)

\* get_error with one worker has put its batches while the worker was not
\* yet able to take any, and has then returned the mean of two or more
\* costs.
C4_Witness ==
    /\ HasReturned(1)
    /\ devices = 1
    /\ Len(corpus) >= 2
    /\ Len(costs) = Len(corpus)
    /\ pc = "exit"

\* The costs of the batches of the corpus under the parameters `params`,
\* in corpus order: the order in which a single worker computes and
\* pushes them.
CostsInOrder(params) ==
    [k \in 1..Len(corpus) |-> params * corpus[k].data]

\* The parameters of the checkpoint get_error was last called on.
CheckpointParams == Disk[FileAt(model_files[2])].params

\* Whether m is the exact mean of the list cs up to the rounding of
\* Len(cs) floating-point operations: with n = Len(cs), S the exact sum
\* and u = 2^-Prec,  |m - S/n| <= (n u / (1 - n u)) S/n + 1/2.
WithinRounding(m, cs) ==
    LET n == Len(cs)
        S == SeqSum(cs)
        P == Pow2(Prec)
    IN  2 * Abs(n * m - S) * (P - n) <= 2 * n * S + n * (P - n)

\* C5 as claimed: the mean get_error returns with any number of workers
\* equals the mean it returns with one worker, which computes and pushes
\* the costs in corpus order.
C5_SameMeanAsOneWorker ==
    (HasReturned(1) /\ corpus # <<>>) =>
        returns[1] = mean(CostsInOrder(CheckpointParams))

\* C5, amended: the costs get_error has collected when it returns are,
\* as a multiset, the costs of the batches, whatever the number of workers
\* and the interleaving; with one worker, and whenever the costs arrive in
\* corpus order, the mean is the one-worker mean exactly; in every case
\* it is the exact mean of the costs up to floating-point rounding.
C5_SameCostsMeanWithinRounding ==
    (HasReturned(1) /\ corpus # <<>>) =>
        LET expected == CostsInOrder(CheckpointParams)
        IN  /\ SeqBag(costs) = SeqBag(expected)
            /\ (devices = 1) => costs = expected
            /\ (costs = expected) => returns[1] = RoundQ(FSumFrom(0, expected), Len(expected))
            /\ WithinRounding(returns[1], expected)

\* get_error has returned with two or more workers, the costs having
\* arrived in another order than the corpus order.
C5_Witness ==
    /\ HasReturned(1)
    /\ devices >= 2
    /\ Len(costs) = Len(corpus)
    /\ costs # CostsInOrder(CheckpointParams)

\* The parameters of the checkpoint of record r of m_infos.
RecordParams(r) == Disk[FileAt(r[5])].params

\* C6 as claimed: two calls of get_error on identical inputs (checkpoints
\* holding the same parameters, the same corpus and devices) return the
\* same mean cost.
C6_SameMeanTwice ==
    \A a, b \in DOMAIN m_infos :
        RecordParams(m_infos[a]) = RecordParams(m_infos[b]) =>
            m_infos[a][4] = m_infos[b][4]

\* C6, amended: two calls of get_error on identical inputs return the same
\* mean cost when there is one worker (the costs then arrive in corpus
\* order in both) or the corpus has fewer than three batches; with more
\* workers the two means are each the exact mean of the same costs up to
\* floating-point rounding, so they differ by at most twice that rounding.
C6_SameMeanUpToRounding ==
    \A a, b \in DOMAIN m_infos :
        (RecordParams(m_infos[a]) = RecordParams(m_infos[b]) /\ corpus # <<>>) =>
            LET ra == m_infos[a][4]
                rb == m_infos[b][4]
                cs == CostsInOrder(RecordParams(m_infos[a]))
                n  == Len(cs)
                P  == Pow2(Prec)
            IN  /\ (devices = 1 \/ n < 3) => ra = rb
                /\ 2 * n * Abs(ra - rb) * (P - n)
                      <= 2 * (2 * n * SeqSum(cs) + n * (P - n))
                /\ WithinRounding(ra, cs)

\* Two checkpoints holding the same parameters have been evaluated one
\* after the other by two or more workers on three or more batches.
C6_Witness ==
    /\ Len(m_infos) >= 2
    /\ devices >= 2
    /\ Len(corpus) >= 3
    /\ m_infos[1][5] # m_infos[2][5]
    /\ RecordParams(m_infos[1]) = RecordParams(m_infos[2])

\* C7: when the corpus yields no batch, get_error ends in the error
\* EmptyCorpusError and returns no mean cost.
C7_EmptyCorpusRaises ==
    (corpus = <<>> /\ calls = 1 /\ pc \in {"exit", "raise", "exited"}) =>
        /\ exc = "EmptyCorpusError"
        /\ returns = <<>>

\* The workers of call c that failed while get_error was running.
FailedDuring(c) == { w \in WorkersOf(c) \cap Failed : processes[w].during }

\* C8 as claimed: if any worker fails during an evaluation, get_error
\* never returns.
C8_AnyFailureBlocks ==
    \A c \in 1..calls : FailedDuring(c) # {} => ~HasReturned(c)

\* C8, amended: a worker's failure is never reported to the coordinator
\* (the main process raises nothing); if a worker fails while it computes
\* the cost of a batch, or if all workers fail and the corpus is not
\* empty, get_error never returns: once the sentinels are put it waits
\* on the Result Queue; if a worker fails while compiling and another
\* worker is left, get_error can still return.
C8_LostBatchBlocks ==
    \A c \in 1..calls :
        /\ (WorkersOf(c) \cap Failed # {}) => exc = ""
        /\ (\E w \in FailedDuring(c) : processes[w].died = "f_cost") =>
              /\ ~HasReturned(c)
              /\ pc \in {"put_batches", "put_stops", "get_costs"}
        /\ (FailedDuring(c) = WorkersOf(c) /\ corpus # <<>>) =>
              /\ ~HasReturned(c)
              /\ pc \in {"put_batches", "put_stops", "get_costs"}

\* A worker has failed while it computed the cost of a batch, the other
\* worker has processed what was left and has ended on its sentinel, and
\* get_error waits on the empty Result Queue for a cost that never comes.
C8_Witness ==
    /\ calls = 1
    /\ devices >= 2
    /\ pc = "get_costs"
    /\ out_queue[1] = <<>>
    /\ BatchesIn(in_queue[1]) = {}
    /\ \E w \in WorkersOf(1) :
          /\ processes[w].at = "crashed"
          /\ processes[w].died = "f_cost"
          /\ \A v \in WorkersOf(1) \ {w} : processes[v].at = "exited"
    /\ Len(costs) = Len(corpus) - 1

\* C9: the progress printed after the k-th pop is k / num_batches * 100
\* percent (here in hundredths of a percent, as {:.2f} prints it), so the
\* one printed after the last pop is 100 percent.
C9_ProgressCountsPops ==
    \A k \in 1..Len(progress) :
        /\ progress[k] = (k * 20000 + num_batches) \div (2 * num_batches)
        /\ (k = num_batches) => progress[k] = 10000

\* The checkpoint files of the directory whose names do not match the
\* name format.
UnmatchedNames ==
    { n \in DOMAIN listing :
        /\ splitext(Disk[listing[n]].name) = ".npz"
        /\ ~re_search(Disk[listing[n]].name).matched }

\* C10: a checkpoint file whose name does not match the name format is
\* never passed to get_error, never appears in the records, and does not
\* end the sweep: the loop goes on to the next checkpoint file.
C10_UnmatchedNameSkipped ==
    \A n \in UnmatchedNames :
        LET m == join(model_dir, listing[n])
        IN  /\ (model_files # <<>>) => model_files[2] # m
            /\ \A r \in DOMAIN m_infos : m_infos[r][5] # m
            /\ ~(/\ pc = "raise"
                 /\ exc = "ValueError"
                 /\ i < Len(model_npzs)
                 /\ model_npzs[i + 1] = m)

\* The place of x in the list s of distinct elements.
Pos(s, x) == CHOOSE n \in DOMAIN s : s[n] = x

\* The place in the directory listing of the checkpoint of record r.
ListedAt(r) == Pos(listing, FileAt(r[5]))

\* C11: the step that sorts and emits the records (lines 167-175) turns
\* the records collected, which stand in directory-listing order, into a
\* permutation of them that ascends by modification time, records of
\* equal time keeping their directory-listing order, and prints exactly
\* these rows in this order; this for every order of the listing.
C11_EmittedSortedStable ==
    [][Report =>
         /\ \A a, b \in DOMAIN m_infos :
               a < b => ListedAt(m_infos[a]) < ListedAt(m_infos[b])
         /\ SeqBag(m_infos') = SeqBag(m_infos)
         /\ \A a, b \in DOMAIN m_infos' :
               a < b =>
                 /\ m_infos'[a][1] <= m_infos'[b][1]
                 /\ (m_infos'[a][1] = m_infos'[b][1]) =>
                       /\ Pos(m_infos, m_infos'[a]) < Pos(m_infos, m_infos'[b])
                       /\ ListedAt(m_infos'[a]) < ListedAt(m_infos'[b])
         /\ stdout' = stdout \o [k \in DOMAIN m_infos' |-> <<"row", m_infos'[k]>>]
    ]_vars

\* The sweep has emitted three records: the one collected last comes
\* first, and the two of equal time follow it in their listing order.
C11_Witness ==
    /\ pc = "exit"
    /\ Len(m_infos) = 3
    /\ m_infos[1][1] < m_infos[2][1]
    /\ m_infos[2][1] = m_infos[3][1]
    /\ ListedAt(m_infos[2]) < ListedAt(m_infos[1])
    /\ ListedAt(m_infos[3]) < ListedAt(m_infos[1])

\* The options (.json) files of the model directory.
OptionsFiles ==
    { n \in DOMAIN listing : splitext(Disk[listing[n]].name) = ".json" }

\* C12: when the model directory holds no options file, or more than one,
\* the sweep ends with an error before it evaluates any checkpoint: it
\* never enters its loop and never calls get_error.  (The error of the
\* claim is ConfigError; any exception is taken for it here, the
\* IndexError of line 152 on no options file included.)
C12_OneOptionsFileOrConfigError ==
    (command = "eval_multiple_models" /\ Cardinality(OptionsFiles) # 1) =>
        /\ pc \in {"main", "raise", "exited"}
        /\ (pc # "main") => exc # ""
        /\ calls = 0
        /\ m_infos = <<>>

\* The table rows printed so far.
RowsPrinted == { n \in DOMAIN stdout : stdout[n][1] = "row" }

\* C13: once get_error has failed for a checkpoint of a sweep (load_params
\* raises on it), the sweep is over: the loop stays at that checkpoint,
\* the only calls of get_error are those made before, each of which
\* returned and left its record, no table row is printed and the out
\* file keeps its previous content.
C13_FailureAbortsSweep ==
    (exc = "load_params" /\ command = "eval_multiple_models") =>
        /\ pc \in {"raise", "exited"}
        /\ i < Len(model_npzs)
        /\ model_files[2] = model_npzs[i + 1]
        /\ calls = Len(m_infos)
        /\ Len(returns) = Len(m_infos)
        /\ RowsPrinted = {}
        /\ csv = OldCsv

\* With --out-file, the sweep has ended on a checkpoint get_error failed
\* for, after one checkpoint evaluated and before one more to come.
C13_Witness ==
    /\ exc = "load_params"
    /\ pc = "exited"
    /\ out_file
    /\ Len(m_infos) >= 1
    /\ i + 1 < Len(model_npzs)
    /\ re_search(model_npzs[i + 2]).matched

\* The rows of the printed table, in the order printed.
Table == SelectSeq(stdout, LAMBDA line : line[1] = "row")

\* C14: the out file is written only by a sweep that ran to its end with
\* --out-file; it then holds the header line time,epoch,update,cost,model
\* and after it one row per record, the rows of the printed table in the
\* same order, and nothing of its previous content; in every other case
\* the file is not written.
C14_CsvIsHeaderAndTable ==
    IF command = "eval_multiple_models" /\ out_file /\ pc \in {"exit", "exited"}
       /\ exc = ""
    THEN /\ Len(csv) = 1 + Len(m_infos)
         /\ csv[1] = "time,epoch,update,cost,model"
         /\ Len(Table) = Len(m_infos)
         /\ \A k \in DOMAIN m_infos :
               /\ csv[k + 1] = <<"row", m_infos[k]>>
               /\ csv[k + 1] = Table[k]
    ELSE csv = OldCsv

\* A sweep with --out-file has written the header and two rows, the
\* records having been collected in the other order.
C14_Witness ==
    /\ pc = "exit"
    /\ out_file
    /\ Len(csv) = 3
    /\ Len(m_infos) = 2
    /\ ListedAt(m_infos[2]) < ListedAt(m_infos[1])

\* The name of the checkpoint file of record r: its path with the model
\* directory taken off.
NameOf(r) == Disk[FileAt(r[5])].name

\* C15: every record stands for a checkpoint file of the directory whose
\* name matches the name format; its epoch is the number in the first
\* group of the match of that name and its update the number in the
\* second (m_epoch_3_update_100.npz gives epoch 3 and update 100); its
\* path and its modification time are those of that file.
C15_RecordFromNameGroups ==
    \A k \in DOMAIN m_infos :
        LET r == m_infos[k]
            name_match == re_search(NameOf(r))
        IN  /\ \E n \in DOMAIN listing : r[5] = join(model_dir, listing[n])
            /\ r[1] = Disk[FileAt(r[5])].mtime
            /\ name_match.matched
            /\ r[2] = int(name_match.group1)
            /\ r[3] = int(name_match.group2)
            /\ (NameOf(r) = <<"m_", "epoch_", "3", "_update_", "100", ".npz">>)
                  => (r[2] = 3 /\ r[3] = 100)

\* The checkpoint files of the directory whose names match the name
\* format, as paths.
MatchingNames ==
    { join(model_dir, listing[n]) : n \in
        { n \in DOMAIN listing :
            /\ splitext(Disk[listing[n]].name) = ".npz"
            /\ re_search(Disk[listing[n]].name).matched } }

\* C16: the sweep evaluates one checkpoint at a time (a call of get_error
\* starts only when the one before has returned and left its record),
\* every call with the one options file, and a sweep that has run to its
\* end has called get_error once and appended one record for each
\* checkpoint file whose name matches the name format, and for no other.
C16_OneCallPerMatchingName ==
    (command = "eval_multiple_models") =>
        /\ calls <= Len(returns) + 1
        /\ (pc \in {"get_error", "put_batches", "put_stops", "get_costs", "mean"})
              => Len(m_infos) = Len(returns)
        /\ (model_files # <<>>) => model_files[1] = model_option_file
        /\ (pc = "exit" /\ exc = "") =>
              /\ calls = Cardinality(MatchingNames)
              /\ Len(m_infos) = Cardinality(MatchingNames)
              /\ { m_infos[k][5] : k \in DOMAIN m_infos } = MatchingNames

\* C17: in every step, an item leaves the Task Queue of call c only into
\* the hands of a worker started by call c, and a cost enters the Result
\* Queue of call c only from such a worker: a worker left over from an
\* earlier call takes no batch and no sentinel of a later call and pushes
\* no cost to it.
C17_QueuesOfOwnCallOnly ==
    [][\A c \in 1..calls :
         /\ (Len(in_queue'[c]) < Len(in_queue[c])) =>
               \E w \in WorkersOf(c) :
                  /\ processes[w].at = "get"
                  /\ processes'[w].at \in {"f_cost", "exited"}
                  /\ processes'[w].cur_data = Head(in_queue[c])
                  /\ \A v \in DOMAIN processes \ {w} : processes'[v] = processes[v]
         /\ (Len(out_queue'[c]) > Len(out_queue[c])) =>
               \E w \in WorkersOf(c) :
                  /\ processes[w].at = "f_cost"
                  /\ processes'[w].at = "get"
                  /\ \A v \in DOMAIN processes \ {w} : processes'[v] = processes[v]
    ]_vars

\* The second call of get_error has put a batch on its Task Queue while a
\* worker of the first call, not yet ended, waits for its sentinel in the
\* Task Queue of the first call.
C17_Witness ==
    /\ calls = 2
    /\ in_queue[1] # <<>>
    /\ in_queue[2] # <<>>
    /\ Head(in_queue[2]).kind = "batch"
    /\ \E w \in WorkersOf(1) : processes[w].at = "get"
    /\ \E v \in WorkersOf(2) : processes[v].at = "get"

\* C18: in every state, in the Task Queue of every call, no batch stands
\* behind a stop sentinel; the sentinels are put only when every batch of
\* the corpus has been put; and once a worker has dequeued a sentinel and
\* left its loop, no batch is in the Task Queue, then or later: every
\* batch has been dequeued by some worker.
C18_BatchesAheadOfSentinels ==
    \A c \in 1..calls :
        /\ \A a, b \in DOMAIN in_queue[c] :
              (a < b /\ in_queue[c][a] = STOP) => in_queue[c][b] = STOP
        /\ (c = calls /\ StopsIn(c) + SentinelsOf(WorkersOf(c)) > 0) =>
              num_batches = Len(corpus)
        /\ \A w \in WorkersOf(c) :
              (processes[w].sentinels > 0) =>
                 /\ BatchesIn(in_queue[c]) = {}
                 /\ \A k \in 1..Len(corpus) : taken[c][k] >= 1

\* A worker has dequeued its sentinel and ended while another worker
\* still computes the cost of the last batch and a sentinel is left.
C18_Witness ==
    /\ calls = 1
    /\ Len(corpus) >= 2
    /\ in_queue[1] = <<STOP>>
    /\ \E w, v \in WorkersOf(1) :
          /\ processes[w].at = "exited"
          /\ processes[v].at = "f_cost"

\* The worker processes of call c that are alive.
Live(c) ==
    { w \in WorkersOf(c) : processes[w].at \in {"compile", "get", "f_cost"} }

\* C19: get_error does not wait for its workers: once it has popped its
\* costs it returns whatever its workers do; the workers it leaves behind
\* hold no batch and each still has its sentinel waiting in the Task
\* Queue of its call; the live workers of a sweep are at most those of
\* all calls made so far (and can be more than the devices, as the
\* witness shows).
C19_ReturnsWithoutJoin ==
    /\ (pc = "mean") => ENABLED Return
    /\ \A c \in 1..calls :
          /\ Cardinality(Live(c)) <= devices
          /\ HasReturned(c) =>
                /\ \A w \in Live(c) : processes[w].at \in {"compile", "get"}
                /\ \A w \in Live(c) : processes[w].sentinels = 0
                /\ StopsIn(c) >= Cardinality(Live(c))

\* The first call of get_error of a sweep has returned its mean cost, a
\* worker of it that has not dequeued its sentinel is still alive, and
\* with the workers of the second call there are more live workers than
\* devices.
C19_Witness ==
    /\ command = "eval_multiple_models"
    /\ calls = 2
    /\ HasReturned(1)
    /\ corpus # <<>>
    /\ \E w \in Live(1) : processes[w].sentinels = 0
    /\ Cardinality(Live(1) \cup Live(2)) > devices

\* The workers that failed while they held a batch, and those that failed
\* while they held none.
DiedHolding == { w \in Failed : processes[w].died = "f_cost" }

DiedIdle == { w \in Failed : processes[w].died = "compile" }

\* What holds in every state of a worker that died between dequeuing a
\* batch and pushing its cost: the batch was dequeued that once, is not
\* in the Task Queue again and has no cost; the Result Queue of the call
\* has received at most num_batches - 1 costs; get_error has not returned
\* and, the sentinels put, waits on the Result Queue.
C20_LostBatchNeverRetried ==
    \A w \in DiedHolding :
        LET c == processes[w].call
            k == processes[w].cur_data.idx
        IN  /\ taken[c][k] = 1
            /\ Queued(c, k) = 0
            /\ Holding(c, k) = {}
            /\ pushed[c][k] = 0
            /\ SumTo(pushed[c], Len(corpus)) <= Len(corpus) - 1
            /\ Len(costs) + Len(out_queue[c]) <= Len(corpus) - 1
            /\ ~HasReturned(c)
            /\ pc \in {"put_batches", "put_stops", "get_costs"}

\* C20: a batch whose worker died on it is never re-queued or retried and
\* get_error never returns, whatever the other workers do; whereas when a
\* worker has died holding no batch, some other worker v of the pool
\* never fails and no batch is lost, get_error eventually returns the mean of the costs of
\* all batches.
C20_LostBatchBlocksIdleDeathDoesNot ==
    /\ []C20_LostBatchNeverRetried
    /\ \A v \in 1..MaxDevices :
          [](v <= devices /\ DiedHolding = {} /\ v \notin Failed)
             => ((calls = 1 /\ DiedIdle # {})
                   ~> (HasReturned(1) /\ Len(costs) = Len(corpus)))

\* A worker has died holding no batch, the other worker has computed the
\* costs of all of two or more batches, and get_error has returned their
\* mean.
C20_Witness ==
    /\ HasReturned(1)
    /\ Len(corpus) >= 2
    /\ Len(costs) = Len(corpus)
    /\ DiedIdle # {}
    /\ DiedHolding = {}
    /\ \E v \in WorkersOf(1) : processes[v].at \in {"get", "exited"}

=============================================================================
